---- MODULE Spec2Model ----
(***************************************************************************)
(* One run of Retry.do (src/src/retry.ts, lines 156-217) together with the *)
(* built-in delay strategies and retry conditions it is configured with.   *)
(*                                                                         *)
(* JavaScript runs a continuation to its next await without interleaving,  *)
(* so there is one action per resumption of the async function: the call   *)
(* itself (up to the first operation()), the settlement of the awaited     *)
(* operation (up to the next wait(), or to the end of the function), and   *)
(* the timer of wait() firing (up to the next operation()).                *)
(***************************************************************************)
EXTENDS Integers, Sequences, FiniteSets, TLC

VARIABLES
  cfg,            \* the options object handed to Retry.do
  pc,             \* "idle" | "operation" | "wait" | "done"
  maxRetries,     \* local maxRetries, after the default of line 168
  delay,          \* local delay, after the default of line 169
  attempts,       \* line 171
  shouldRetry,    \* line 172
  attemptsLeft,   \* line 173
  result,         \* line 174
  previousError,  \* line 175
  outcome,        \* the promise returned by Retry.do
  calls,          \* history: how often each collaborator was called so far
  last,           \* history: the latest call of each collaborator
  waits,          \* history: the durations handed to wait(), in order
  steps,          \* history: the calls made by the latest resumption, in order
  applied,        \* a delay strategy called directly: its arguments and what it returned
  parked,         \* a second call of Retry.do whose continuation is not the one running
  descriptor,     \* the property descriptor a Retryable decorator is applied to
  direct          \* a condition or a constructor called directly: arguments and outcome

vars == <<cfg, pc, maxRetries, delay, attempts, shouldRetry, attemptsLeft,
          result, previousError, outcome, calls, last, waits, steps, applied, parked,
          descriptor, direct>>

----------------------------------------------------------------------------
(* Bounds of the model. *)

\* the largest maxRetries a configuration sets
MaxRetriesBound == 3

\* a delay strategy is called directly with the attempt counts -MaxAttemptCount..MaxAttemptCount
MaxAttemptCount == 5

\* how often the wrapper that Retryable installs is called
MaxWrapperCalls == 2

----------------------------------------------------------------------------
(* JavaScript values, as far as the code looks at them. *)

Null == [kind |-> "null"]
Undefined == [kind |-> "undefined"]
Num(n) == [kind |-> "number", v |-> n]
Bool(b) == [kind |-> "boolean", v |-> b]
\* an Error object; id is its identity
Err(id) == [kind |-> "Error", id |-> id, message |-> "error " \o ToString(id)]
\* a function object; fn names it, arg is what its closure captured
Fn(fn, arg) == [kind |-> "function", fn |-> fn, arg |-> arg]
Str(t) == [kind |-> "string", v |-> t]

\* x == null
IsNullish(x) == x.kind \in {"null", "undefined"}

\* ToBoolean(x)
Truthy(x) ==
  CASE x.kind \in {"null", "undefined"} -> FALSE
    [] x.kind = "number" -> x.v # 0
    [] x.kind = "boolean" -> x.v
    [] OTHER -> TRUE

\* x || d in the place of x ?? d
CoalesceFalsy(x, d) == IF Truthy(x) THEN x ELSE d

\* x ?? d
Coalesce(x, d) == IF IsNullish(x) THEN d ELSE x

Max(a, b) == IF a >= b THEN a ELSE b
Min(a, b) == IF a <= b THEN a ELSE b

\* Math.pow(b, e) for an integer e >= 0
RECURSIVE Pow(_, _)
Pow(b, e) == IF e <= 0 THEN 1 ELSE b * Pow(b, e - 1)

\* what a call of a callback does: it returns v, or it throws v
Returns(v) == [threw |-> FALSE, v |-> v]
Throws(v) == [threw |-> TRUE, v |-> v]

----------------------------------------------------------------------------
(* Delays: the built-in delay strategies. *)

DelaysNone(n) == 0

\* a constant strategy that scales with the attempt count
DelaysConstantPerAttempt(delayInMs, n) == n * delayInMs

DelaysConstant(delayInMs, n) == delayInMs

\* a linear strategy that counts the attempts from zero
DelaysLinearFromZero(delayInMs, n) == (n - 1) * delayInMs

DelaysLinear(delayInMs, n) == n * delayInMs

\* an exponential strategy that doubles from the first attempt on
DelaysPotentialFromZero(delayInMs, n) == Pow(2, Max(n, 0)) * delayInMs

\* an exponential strategy that doubles from the third attempt on: d, d, 2d, 4d, 8d
DelaysPotentialFromSecond(delayInMs, n) == Pow(2, Max(n - 2, 0)) * delayInMs

DelaysPotential(delayInMs, n) == Pow(2, Max(n - 1, 0)) * delayInMs

\* the delays a strategy written by the caller returns in this model
UserDelays == {3, 25}

\* the error a callback written by the caller throws when it throws
CallbackError(fn) ==
  [kind |-> "Error",
   id |-> CASE fn = "retryWhen" -> -1 [] fn = "onFailedAttempt" -> -2 [] OTHER -> -3,
   message |-> fn \o " failed"]

\* delay(attempts, error): the outcomes of calling the strategy f
CallDelay(f, n, error) ==
  CASE f.fn = "none" -> {Returns(Num(DelaysNone(n)))}
    [] f.fn = "constant" -> {Returns(Num(DelaysConstant(f.arg, n)))}
    [] f.fn = "linear" -> {Returns(Num(DelaysLinear(f.arg, n)))}
    [] f.fn = "potential" -> {Returns(Num(DelaysPotential(f.arg, n)))}
    [] OTHER -> {Returns(Num(d)) : d \in UserDelays} \cup {Throws(CallbackError("delay"))}

----------------------------------------------------------------------------
(* Conditions: the built-in retry conditions. *)

\* a condition that tests the error for truthiness
ConditionsOnAnyTruthyError(res, err) == Truthy(err)

ConditionsOnAnyError(res, err) == ~IsNullish(err)

ConditionsAlways(res, err) == TRUE

\* a condition that looks at the result alone
ConditionsOnNullResultIgnoringError(res, err) == IsNullish(res)

ConditionsOnNullResult(res, err) == IsNullish(err) /\ IsNullish(res)

\* Conditions.custom(): the rules a builder accumulates
OnError(type) == [rule |-> "onError", of |-> type]
OnCondition(predicate) == [rule |-> "onCondition", of |-> predicate]

\* err instanceof type
InstanceOf(err, type) ==
  \/ err.kind = type
  \/ type = "Error" /\ err.kind \in {"Error", "TypeError", "MaxRetryAttemptsReached"}

\* the predicates over the result registered in this model:
\* (result) => typeof result != 'number' and (result) => result > 10
HoldsFor(predicate, res) ==
  CASE predicate = "notNumber" -> res.kind # "number"
    [] predicate = "greaterThan10" -> res.kind = "number" /\ res.v > 10

RuleMatches(r, res, err) ==
  IF r.rule = "onError" THEN InstanceOf(err, r.of) ELSE HoldsFor(r.of, res)

\* a predicate that wants every registered rule to match
ToConditionAll(rules, res, err) ==
  \A i \in 1..Len(rules) : RuleMatches(rules[i], res, err)

\* Conditions.custom()...toCondition(): any registered rule matches
ToCondition(rules, res, err) ==
  \E i \in 1..Len(rules) : RuleMatches(rules[i], res, err)

\* retryCondition(result, previousError): the outcomes of calling the condition f
CallRetryCondition(f, res, err) ==
  CASE f.fn = "onAnyError" -> {Returns(Bool(ConditionsOnAnyError(res, err)))}
    [] f.fn = "always" -> {Returns(Bool(ConditionsAlways(res, err)))}
    [] f.fn = "onNullResult" -> {Returns(Bool(ConditionsOnNullResult(res, err)))}
    [] f.fn = "custom" -> {Returns(Bool(ToCondition(f.arg, res, err)))}
    [] OTHER -> {Returns(Bool(TRUE)), Returns(Bool(FALSE)), Throws(CallbackError("retryWhen"))}

\* onFailedAttempt(...): the outcomes of calling the callback f
CallOnFailedAttempt(f) ==
  IF f.fn = "returning"
  THEN {Returns(Bool(FALSE)), Returns(Num(1))}
  ELSE {Returns(Undefined), Throws(CallbackError("onFailedAttempt"))}

----------------------------------------------------------------------------
(* MaxRetryAttemptsReached *)

\* a constructor that does not keep the cause
MaxRetryAttemptsReachedWithoutCause(message, cause) ==
  [kind |-> "MaxRetryAttemptsReached",
   cause |-> Undefined,
   message |-> IF Truthy(cause)
               THEN message \o " Caused by thrown error: " \o cause.message
               ELSE message \o " Caused by: unfulfilled retry condition"]

\* new MaxRetryAttemptsReached(message, cause)
MaxRetryAttemptsReached(message, cause) ==
  [kind |-> "MaxRetryAttemptsReached",
   cause |-> cause,
   message |-> IF Truthy(cause)
               THEN message \o " Caused by thrown error: " \o cause.message
               ELSE message \o " Caused by: unfulfilled retry condition"]

----------------------------------------------------------------------------
(* Retry.do *)

\* a default that is off by one
DefaultMaxRetriesOffByOne == 2 + 1

DefaultMaxRetries == 2

\* operation.name of the function handed to Retry.do
OperationName == Str("operation")

\* an operation that captured nothing the model looks at
NoClosure == [method |-> Undefined, self |-> 0, args |-> <<>>]

\* the options a run is configured with
Options ==
  [maxRetries : {Undefined} \cup {Num(n) : n \in 0..MaxRetriesBound},
   throwMaxAttemptError : {Undefined, Bool(FALSE), Bool(TRUE)},
   maxDelay : {Undefined, Num(0), Num(10)},
   retryWhen : {Fn("always", 0), Fn("onAnyError", 0), Fn("onNullResult", 0), Fn("user", 0)},
   delay : {Undefined, Fn("none", 0), Fn("constant", 5), Fn("linear", 5),
            Fn("potential", 5), Fn("user", 0)},
   onFailedAttempt : {Undefined, Fn("user", 0)},
   nameOfOperation : {Undefined},
   operation : {Fn("operation", NoClosure)}]

\* the history records one event per call of a collaborator
Event(ev, args, out) == [ev |-> ev, args |-> args, out |-> out]
EventNames ==
  {"operation", "resolved", "rejected", "retryWhen", "onFailedAttempt", "delay", "wait"}
NoEvent == Event("none", <<>>, Undefined)

\* the values the operation resolves with: null, or its 0-based invocation index
ResolveValues == {Null, Num(calls["operation"] - 1)}

\* the values the operation rejects with: undefined, 0, or a fresh Error
RejectValues == {Undefined, Num(0), Err(calls["operation"])}

\* a try block that does not clear the error of an earlier attempt
AwaitOperationKeepsError(res, settled) ==
  IF settled.threw
  THEN [result |-> res, previousError |-> settled.v]
  ELSE [result |-> settled.v, previousError |-> previousError]

\* a catch block that forgets the result of the earlier attempts
AwaitOperationResetsResult(res, settled) ==
  IF settled.threw
  THEN [result |-> Null, previousError |-> settled.v]
  ELSE [result |-> settled.v, previousError |-> Null]

\* try { result = await operation(); previousError = null; }
\* catch (err) { previousError = err; }
AwaitOperation(res, settled) ==
  IF settled.threw
  THEN [result |-> res, previousError |-> settled.v]
  ELSE [result |-> settled.v, previousError |-> Null]

\* a loop that never breaks
ShouldBreakNever(retry) == FALSE

\* if (!shouldRetry) break
ShouldBreak(retry) == ~retry

\* a budget check that is off by one
HasAttemptsLeftInclusive(a, m) == a <= m

\* attempts++ < maxRetries, with a the value of attempts before the increment
HasAttemptsLeft(a, m) == a < m

\* a wait that is not guarded by shouldRetry
ShouldDelayAlways(retry) == TRUE

\* if (shouldRetry) { ... await wait(delayDuration) }
ShouldDelay(retry) == retry

\* a clamp that takes the larger of the two
LimitDelayMax(maxDelay, delayDuration) ==
  IF maxDelay.kind = "number" /\ maxDelay.v > 0
  THEN Max(maxDelay.v, delayDuration)
  ELSE delayDuration

\* a positive maxDelay that replaces the delay of the strategy
LimitDelayReplaces(maxDelay, delayDuration) ==
  IF maxDelay.kind = "number" /\ maxDelay.v > 0
  THEN maxDelay.v
  ELSE delayDuration

\* if (typeof maxDelay === 'number' && maxDelay > 0)
\*   delayDuration = Math.min(maxDelay, delayDuration)
LimitDelay(maxDelay, delayDuration) ==
  IF maxDelay.kind = "number" /\ maxDelay.v > 0
  THEN Min(maxDelay.v, delayDuration)
  ELSE delayDuration

Pending == [status |-> "pending", value |-> Undefined]
Resolved(v) == [status |-> "resolved", value |-> v]
Rejected(v) == [status |-> "rejected", value |-> v]

\* statements after the loop that look at the error first
ResolutionErrorFirst(throwMaxAttemptError, left, n, err, res, nameOfOperation) ==
  IF Truthy(err)
  THEN Rejected(err)
  ELSE IF Truthy(throwMaxAttemptError) /\ ~left
  THEN Rejected(MaxRetryAttemptsReached("Max re-attempts reached.", err))
  ELSE Resolved(res)

\* statements after the loop that do not look at attemptsLeft
ResolutionIgnoresBudget(throwMaxAttemptError, left, n, err, res, nameOfOperation) ==
  IF Truthy(throwMaxAttemptError)
  THEN Rejected(MaxRetryAttemptsReached("Max re-attempts reached.", err))
  ELSE IF Truthy(err)
  THEN Rejected(err)
  ELSE Resolved(res)

\* statements after the loop whose message counts the retries, not the attempts
ResolutionCountsRetries(throwMaxAttemptError, left, n, err, res, nameOfOperation) ==
  IF Truthy(throwMaxAttemptError) /\ ~left
  THEN Rejected(MaxRetryAttemptsReached(
         "Max re-attempts of " \o ToString(n - 1) \o " reached for operation \""
           \o Coalesce(nameOfOperation, OperationName).v \o "\".",
         err))
  ELSE IF Truthy(err)
  THEN Rejected(err)
  ELSE Resolved(res)

\* the statements after the loop
Resolution(throwMaxAttemptError, left, n, err, res, nameOfOperation) ==
  IF Truthy(throwMaxAttemptError) /\ ~left
  THEN Rejected(MaxRetryAttemptsReached(
         "Max re-attempts of " \o ToString(n) \o " reached for operation \""
           \o Coalesce(nameOfOperation, OperationName).v \o "\".",
         err))
  ELSE IF Truthy(err)
  THEN Rejected(err)
  ELSE Resolved(res)

\* the locals of Retry.do as the loop leaves them
Locals(a, retry, left, res, err) ==
  [attempts |-> a, shouldRetry |-> retry, attemptsLeft |-> left,
   result |-> res, previousError |-> err]

\* the run ends: the promise of Retry.do settles with out
Ended(l, out, log) == [pc |-> "done", locals |-> l, outcome |-> out, log |-> log]

\* a wait whose timer never resolves its promise
SuspendedForever(l, log) == [pc |-> "stuck", locals |-> l, outcome |-> Pending, log |-> log]

\* a wait(d) that is not awaited: the loop goes on to the next operation() at once
SuspendedNotAwaited(l, log) ==
  [pc |-> "operation", locals |-> l, outcome |-> Pending,
   log |-> Append(log, Event("operation", <<>>, Undefined))]

\* the run suspends in wait(d)
Suspended(l, log) == [pc |-> "wait", locals |-> l, outcome |-> Pending, log |-> log]

\* an operation() that is called but not awaited: the run waits for a timer instead
InvokedNotAwaited(l, log) ==
  [pc |-> "wait", locals |-> l, outcome |-> Pending,
   log |-> Append(log, Event("operation", <<>>, Undefined))]

\* the run suspends in await operation()
Invoked(l, log) ==
  [pc |-> "operation", locals |-> l, outcome |-> Pending,
   log |-> Append(log, Event("operation", <<>>, Undefined))]

\* the loop is left (break, or while (shouldRetry) fails): lines 205-216
Leave(l, log) ==
  Ended(l,
        Resolution(cfg.throwMaxAttemptError, l.attemptsLeft, l.attempts,
                   l.previousError, l.result, cfg.nameOfOperation),
        log)

\* } while (shouldRetry): the next iteration starts with operation(), or the loop is left
LoopEnd(l, log) == IF l.shouldRetry THEN Invoked(l, log) ELSE Leave(l, log)

\* lines 194-203, after onFailedAttempt: the budget check, the delay and the wait
CheckBudget(retry, res, err, log) ==
  LET left == HasAttemptsLeft(attempts, maxRetries)
      a == attempts + 1
      l == Locals(a, retry /\ left, left, res, err)
  IN IF ShouldDelay(l.shouldRetry)
     THEN {IF d.threw
           THEN Ended(l, Rejected(d.v), Append(log, Event("delay", <<Num(a), err>>, d)))
           ELSE LET delayDuration == LimitDelay(cfg.maxDelay, d.v.v)
                IN Suspended(l, log \o <<Event("delay", <<Num(a), err>>, d),
                                         Event("wait", <<Num(delayDuration)>>, Undefined)>>)
           : d \in CallDelay(delay, a, err)}
     ELSE {LoopEnd(l, log)}

\* the arguments of onFailedAttempt computed after the increment of attempts
FailedAttemptArgsPostIncrement(a, m, res, err) == <<Num(a + 1), Num(m - (a + 1)), res, err>>

\* onFailedAttempt(attempts + 1, maxRetries - attempts, result, previousError)
FailedAttemptArgs(a, m, res, err) == <<Num(a + 1), Num(m - a), res, err>>

\* an onFailedAttempt that is only called while a retry is left
NotifyFailedAttemptWithBudget(retry, res, err, log) ==
  IF cfg.onFailedAttempt.kind = "function" /\ attempts < maxRetries
  THEN UNION {LET ev == Event("onFailedAttempt",
                            FailedAttemptArgs(attempts, maxRetries, res, err), f)
              IN IF f.threw
                 THEN {Ended(Locals(attempts, retry, attemptsLeft, res, err),
                             Rejected(f.v), Append(log, ev))}
                 ELSE CheckBudget(retry, res, err, Append(log, ev))
              : f \in CallOnFailedAttempt(cfg.onFailedAttempt)}
  ELSE CheckBudget(retry, res, err, log)

\* an onFailedAttempt that is called after the delay has been computed
NotifyFailedAttemptAfterDelay(retry, res, err, log) ==
  IF cfg.onFailedAttempt.kind = "function"
  THEN {[n EXCEPT !.log = Append(n.log,
                                 Event("onFailedAttempt",
                                       FailedAttemptArgs(attempts, maxRetries, res, err),
                                       Returns(Undefined)))]
        : n \in CheckBudget(retry, res, err, log)}
  ELSE CheckBudget(retry, res, err, log)

\* an onFailedAttempt whose falsy return value ends the retries
NotifyFailedAttemptVeto(retry, res, err, log) ==
  IF cfg.onFailedAttempt.kind = "function"
  THEN UNION {LET ev == Event("onFailedAttempt",
                            FailedAttemptArgs(attempts, maxRetries, res, err), f)
              IN IF f.threw
                 THEN {Ended(Locals(attempts, retry, attemptsLeft, res, err),
                             Rejected(f.v), Append(log, ev))}
                 ELSE IF f.v = Bool(FALSE)
                 THEN {Leave(Locals(attempts, retry, attemptsLeft, res, err),
                             Append(log, ev))}
                 ELSE CheckBudget(retry, res, err, Append(log, ev))
              : f \in CallOnFailedAttempt(cfg.onFailedAttempt)}
  ELSE CheckBudget(retry, res, err, log)

\* an onFailedAttempt whose exception is swallowed
NotifyFailedAttemptSwallows(retry, res, err, log) ==
  IF cfg.onFailedAttempt.kind = "function"
  THEN UNION {CheckBudget(retry, res, err,
                          Append(log, Event("onFailedAttempt",
                                            FailedAttemptArgs(attempts, maxRetries, res, err),
                                            f)))
              : f \in CallOnFailedAttempt(cfg.onFailedAttempt)}
  ELSE CheckBudget(retry, res, err, log)

\* lines 190-192: onFailedAttempt, if it is a function
NotifyFailedAttempt(retry, res, err, log) ==
  IF cfg.onFailedAttempt.kind = "function"
  THEN UNION {LET ev == Event("onFailedAttempt",
                            FailedAttemptArgs(attempts, maxRetries, res, err), f)
              IN IF f.threw
                 THEN {Ended(Locals(attempts, retry, attemptsLeft, res, err),
                             Rejected(f.v), Append(log, ev))}
                 ELSE CheckBudget(retry, res, err, Append(log, ev))
              : f \in CallOnFailedAttempt(cfg.onFailedAttempt)}
  ELSE CheckBudget(retry, res, err, log)

\* lines 185-203: the rest of the loop body once the operation has settled,
\* up to the next await or to the end of the function
AfterAttempt(res, err, log) ==
  UNION {LET ev == Event("retryWhen", <<res, err>>, c)
         IN IF c.threw
            THEN {Ended(Locals(attempts, shouldRetry, attemptsLeft, res, err),
                        Rejected(c.v), Append(log, ev))}
            ELSE IF ShouldBreak(Truthy(c.v))
            THEN {Leave(Locals(attempts, Truthy(c.v), attemptsLeft, res, err),
                        Append(log, ev))}
            ELSE NotifyFailedAttempt(Truthy(c.v), res, err, Append(log, ev))
         : c \in CallRetryCondition(cfg.retryWhen, res, err)}

----------------------------------------------------------------------------
(* The state machine. *)

RECURSIVE CountEvents(_, _)
CountEvents(log, ev) ==
  IF log = <<>> THEN 0
  ELSE (IF Head(log).ev = ev THEN 1 ELSE 0) + CountEvents(Tail(log), ev)

RECURSIVE LastEvent(_, _, _)
LastEvent(log, ev, dflt) ==
  IF log = <<>> THEN dflt
  ELSE LastEvent(Tail(log), ev, IF Head(log).ev = ev THEN Head(log) ELSE dflt)

RECURSIVE WaitsOf(_)
WaitsOf(log) ==
  IF log = <<>> THEN <<>>
  ELSE (IF Head(log).ev = "wait" THEN <<Head(log).args[1].v>> ELSE <<>>) \o WaitsOf(Tail(log))

\* the resumption leaves the run as n says
Resume(n) ==
  /\ pc' = n.pc
  /\ attempts' = n.locals.attempts
  /\ shouldRetry' = n.locals.shouldRetry
  /\ attemptsLeft' = n.locals.attemptsLeft
  /\ result' = n.locals.result
  /\ previousError' = n.locals.previousError
  /\ outcome' = n.outcome
  /\ calls' = [ev \in EventNames |-> calls[ev] + CountEvents(n.log, ev)]
  /\ last' = [ev \in EventNames |-> LastEvent(n.log, ev, last[ev])]
  /\ waits' = waits \o WaitsOf(n.log)
  /\ steps' = n.log
  /\ UNCHANGED <<cfg, maxRetries, delay, applied, parked, descriptor, direct>>

\* no delay strategy has been called directly
NotApplied == [f |-> Undefined, attempts |-> 0, error |-> Undefined, out |-> Returns(Undefined)]

\* there is no second call of Retry.do
NoRun == [pc |-> "none"]

\* no decorator is applied
NoDescriptor == [decorated |-> FALSE]

\* no condition and no constructor has been called directly
NotCalled == [fn |-> "none", args |-> <<>>, out |-> Undefined]

\* lines 168-175: the options are destructured and the locals initialised
InitLocals ==
  /\ pc = "idle"
  /\ maxRetries = Coalesce(cfg.maxRetries, Num(DefaultMaxRetries)).v
  /\ delay = Coalesce(cfg.delay, Fn("none", 0))
  /\ attempts = 0
  /\ shouldRetry = FALSE
  /\ attemptsLeft = TRUE
  /\ result = Null
  /\ previousError = Null
  /\ outcome = Pending
  /\ calls = [ev \in EventNames |-> 0]
  /\ last = [ev \in EventNames |-> NoEvent]
  /\ waits = <<>>
  /\ steps = <<>>

\* one call of Retry.do, about to be made with any of the options
Init ==
  /\ cfg \in Options
  /\ InitLocals
  /\ applied = NotApplied
  /\ parked = NoRun
  /\ descriptor = NoDescriptor
  /\ direct = NotCalled

\* the locals as they stand
Current == Locals(attempts, shouldRetry, attemptsLeft, result, previousError)

\* Retry.do is called: the loop is entered and runs to its first await, line 179
Do ==
  /\ pc = "idle"
  /\ Resume(Invoked(Current, <<>>))

\* the awaited operation resolves with v
OperationResolves ==
  /\ pc = "operation"
  /\ \E v \in ResolveValues :
       LET l == AwaitOperation(result, Returns(v))
       IN \E n \in AfterAttempt(l.result, l.previousError,
                 <<Event("resolved", <<Num(calls["operation"])>>, Returns(v))>>) :
            Resume(n)

\* the awaited operation rejects with v
OperationRejects ==
  /\ pc = "operation"
  /\ \E v \in RejectValues :
       LET l == AwaitOperation(result, Throws(v))
       IN \E n \in AfterAttempt(l.result, l.previousError,
                 <<Event("rejected", <<Num(calls["operation"])>>, Throws(v))>>) :
            Resume(n)

\* the timer of wait() fires: the loop condition is tested, line 203
WaitElapsed ==
  /\ pc = "wait"
  /\ Resume(LoopEnd(Current, <<>>))

Next == Do \/ OperationResolves \/ OperationRejects \/ WaitElapsed

Spec == Init /\ [][Next]_vars

\* the options the control flow of the loop depends on: every maxRetries, every
\* condition, a callback or none, a built-in and a caller's delay strategy (maxDelay
\* only changes the duration handed to wait)
LiveOptions ==
  {o \in Options : o.maxDelay = Undefined /\ o.delay \in {Fn("linear", 5), Fn("user", 0)}}

LiveInit == Init /\ cfg \in LiveOptions

\* every awaited operation settles and every timer of wait() fires
LiveSpec ==
  /\ LiveInit
  /\ [][Next]_vars
  /\ WF_vars(OperationResolves \/ OperationRejects)
  /\ WF_vars(WaitElapsed)

----------------------------------------------------------------------------
(* The delay strategies called directly, next to a run that uses one. *)

\* the delayInMs the factories are called with
DelayInMs == {5, 7}

\* Delays.none(), Delays.constant(d), Delays.linear(d), Delays.potential(d)
BuiltinDelays ==
  {Fn("none", 0)} \cup {Fn(k, d) : k \in {"constant", "linear", "potential"}, d \in DelayInMs}

AttemptCounts == (0 - MaxAttemptCount)..MaxAttemptCount

\* strategy(attempts, error) is called on its own
ApplyDelay ==
  /\ applied = NotApplied
  /\ \E f \in BuiltinDelays, n \in AttemptCounts, error \in {Null, Err(1)} :
       \E o \in CallDelay(f, n, error) :
         applied' = [f |-> f, attempts |-> n, error |-> error, out |-> o]
  /\ UNCHANGED <<cfg, pc, maxRetries, delay, attempts, shouldRetry, attemptsLeft,
                 result, previousError, outcome, calls, last, waits, steps, parked,
                 descriptor, direct>>

\* a run that retries always, three times, with Delays.linear(5) and no maxDelay
DelaysOptions ==
  {o \in Options : /\ o.maxRetries = Num(3)
                   /\ o.retryWhen = Fn("always", 0)
                   /\ o.delay = Fn("linear", 5)
                   /\ o.maxDelay = Undefined
                   /\ o.throwMaxAttemptError = Undefined
                   /\ o.onFailedAttempt = Undefined}

DelaysInit == Init /\ cfg \in DelaysOptions

DelaysNext == ApplyDelay \/ Next

DelaysSpec == DelaysInit /\ [][DelaysNext]_vars

\* the strategy f has been called directly
Applied(f) == applied # NotApplied /\ applied.f = f

----------------------------------------------------------------------------
(* Two calls of Retry.do whose continuations interleave on the event loop. *)

\* the call whose continuation runs: its options, its locals, its promise, its history
RunState ==
  [cfg |-> cfg, pc |-> pc, maxRetries |-> maxRetries, delay |-> delay,
   attempts |-> attempts, shouldRetry |-> shouldRetry, attemptsLeft |-> attemptsLeft,
   result |-> result, previousError |-> previousError, outcome |-> outcome,
   calls |-> calls, last |-> last, waits |-> waits, steps |-> steps]

\* a call of Retry.do with the options o that has not run yet
IdleRun(o) ==
  [cfg |-> o, pc |-> "idle",
   maxRetries |-> Coalesce(o.maxRetries, Num(DefaultMaxRetries)).v,
   delay |-> Coalesce(o.delay, Fn("none", 0)),
   attempts |-> 0, shouldRetry |-> FALSE, attemptsLeft |-> TRUE,
   result |-> Null, previousError |-> Null, outcome |-> Pending,
   calls |-> [ev \in EventNames |-> 0], last |-> [ev \in EventNames |-> NoEvent],
   waits |-> <<>>, steps |-> <<>>]

\* an attempt counter that all calls of Retry.do share
SharedAttempts(r) == attempts

\* line 171: attempts is a local of the call r
OwnAttempts(r) == r.attempts

\* the event loop runs a continuation of the other call next
Swap ==
  /\ parked # NoRun
  /\ parked' = RunState
  /\ cfg' = parked.cfg
  /\ pc' = parked.pc
  /\ maxRetries' = parked.maxRetries
  /\ delay' = parked.delay
  /\ attempts' = OwnAttempts(parked)
  /\ shouldRetry' = parked.shouldRetry
  /\ attemptsLeft' = parked.attemptsLeft
  /\ result' = parked.result
  /\ previousError' = parked.previousError
  /\ outcome' = parked.outcome
  /\ calls' = parked.calls
  /\ last' = parked.last
  /\ waits' = parked.waits
  /\ steps' = parked.steps
  /\ UNCHANGED <<applied, descriptor, direct>>

\* the options of the two calls: one or two retries, on every outcome or on errors only
ConcurrentOptions ==
  {o \in Options : /\ o.maxRetries \in {Num(1), Num(2)}
                   /\ o.retryWhen \in {Fn("always", 0), Fn("onAnyError", 0)}
                   /\ o.delay = Fn("linear", 5)
                   /\ o.maxDelay = Undefined
                   /\ o.throwMaxAttemptError = Bool(TRUE)
                   /\ o.onFailedAttempt = Fn("user", 0)}

ConcurrentInit ==
  /\ cfg \in ConcurrentOptions
  /\ InitLocals
  /\ applied = NotApplied
  /\ parked \in {IdleRun(o) : o \in ConcurrentOptions}
  /\ descriptor = NoDescriptor
  /\ direct = NotCalled

ConcurrentNext == Next \/ Swap

ConcurrentSpec == ConcurrentInit /\ [][ConcurrentNext]_vars

----------------------------------------------------------------------------
(* Retryable: the method decorator. *)

\* the property names of the object handed to Retry.do
OptionKeys ==
  {"maxRetries", "throwMaxAttemptError", "maxDelay", "retryWhen", "delay",
   "onFailedAttempt", "nameOfOperation", "operation"}

\* no call of Retry.do has been made
NoOptions == [k \in OptionKeys |-> Undefined]

\* the options objects handed to Retryable; a property may be absent
DecoratorOptions ==
  {[retryWhen |-> Fn("always", 0), maxRetries |-> Num(1)],
   [retryWhen |-> Fn("onAnyError", 0), maxRetries |-> Num(1),
    nameOfOperation |-> Str("custom")],
   [retryWhen |-> Fn("always", 0), maxRetries |-> Num(0),
    throwMaxAttemptError |-> Bool(TRUE)]}

\* the method the decorator is applied to
OriginalMethod == Fn("method", [owner |-> "DummyClass"])

\* the values of the descriptor the decorator is applied to
DescriptorValues == {Undefined, Null, Num(1), Str("value"), OriginalMethod}

\* the objects the wrapper is called on, and the arguments it is called with
Instances == {1, 2}
Arguments == {<<>>, <<Num(7)>>}

\* typeof v != 'undefined'
IsDefined(v) == v.kind # "undefined"

\* typeof v == 'function'
IsFunction(v) == v.kind = "function"

\* `${target.constructor.name}#${property.toString()}`
MethodName(className, property) == Str(className \o "#" \o property)

\* { operation, nameOfOperation: methodName, ...options }
Spread(operation, methodName, options) ==
  [k \in OptionKeys |->
     IF k \in DOMAIN options THEN options[k]
     ELSE IF k = "operation" THEN operation
     ELSE IF k = "nameOfOperation" THEN methodName
     ELSE Undefined]

\* function (...args) { return Retry.do({ ... }) }, a closure over the original method,
\* the method name and the options
Wrapper(originalMethod, methodName, options) ==
  Fn("wrapper",
     [originalMethod |-> originalMethod, methodName |-> methodName, options |-> options])

\* () => originalMethod.apply(this, args)
Operation(originalMethod, self, args) ==
  Fn("operation", [method |-> originalMethod, self |-> self, args |-> args])

\* Retryable(options)(target, property, descriptor)
Decorate ==
  /\ descriptor # NoDescriptor
  /\ ~descriptor.decorated
  /\ descriptor' =
       IF ~IsFunction(descriptor.value)
       THEN [descriptor EXCEPT !.decorated = TRUE]
       ELSE [descriptor EXCEPT
               !.decorated = TRUE,
               !.value = Wrapper(descriptor.value,
                                 MethodName(descriptor.className, descriptor.property),
                                 descriptor.options)]
  /\ UNCHANGED <<cfg, pc, maxRetries, delay, attempts, shouldRetry, attemptsLeft,
                 result, previousError, outcome, calls, last, waits, steps, applied,
                 parked, direct>>

\* descriptor.value(...args) is called on an instance: Retry.do runs to its first await
CallWrapper ==
  /\ descriptor # NoDescriptor
  /\ descriptor.decorated
  /\ IsFunction(descriptor.value)
  /\ descriptor.invoked < MaxWrapperCalls
  /\ pc \in {"idle", "done"}
  /\ \E self \in Instances, args \in Arguments :
       LET w == descriptor.value.arg
           o == Spread(Operation(w.originalMethod, self, args), w.methodName, w.options)
           r == IdleRun(o)
           n == Invoked(Locals(r.attempts, r.shouldRetry, r.attemptsLeft, r.result,
                               r.previousError), <<>>)
       IN /\ cfg' = o
          /\ maxRetries' = r.maxRetries
          /\ delay' = r.delay
          /\ pc' = n.pc
          /\ attempts' = n.locals.attempts
          /\ shouldRetry' = n.locals.shouldRetry
          /\ attemptsLeft' = n.locals.attemptsLeft
          /\ result' = n.locals.result
          /\ previousError' = n.locals.previousError
          /\ outcome' = n.outcome
          /\ calls' = [ev \in EventNames |-> CountEvents(n.log, ev)]
          /\ last' = [ev \in EventNames |-> LastEvent(n.log, ev, NoEvent)]
          /\ waits' = WaitsOf(n.log)
          /\ steps' = n.log
          /\ descriptor' = [descriptor EXCEPT !.invoked = @ + 1, !.self = self,
                                               !.args = args]
  /\ UNCHANGED <<applied, parked, direct>>

\* a descriptor with any of the values, about to be decorated with any of the options
RetryableInit ==
  /\ cfg = NoOptions
  /\ InitLocals
  /\ applied = NotApplied
  /\ parked = NoRun
  /\ direct = NotCalled
  /\ \E v \in DescriptorValues, o \in DecoratorOptions :
       descriptor = [decorated |-> FALSE, original |-> v, value |-> v, options |-> o,
                     className |-> "DummyClass", property |-> "method",
                     invoked |-> 0, self |-> 0, args |-> <<>>]

RetryableNext ==
  Decorate \/ CallWrapper \/ OperationResolves \/ OperationRejects \/ WaitElapsed

RetryableSpec == RetryableInit /\ [][RetryableNext]_vars

----------------------------------------------------------------------------
(* The conditions and the constructor of the error, called directly. *)

\* a TypeError object
TypeErr(id) == [kind |-> "TypeError", id |-> id, message |-> "type error " \o ToString(id)]

\* the results and the errors a condition is called with
ResultValues == {Null, Undefined, Num(0), Num(1), Num(11), Str("")}
ErrorValues == {Null, Undefined, Num(0), Err(1), TypeErr(2)}

\* Conditions.onAnyError(), Conditions.always(), Conditions.onNullResult()
BuiltinConditions == {Fn("onAnyError", 0), Fn("always", 0), Fn("onNullResult", 0)}

\* the rules registered with the builders of Conditions.custom()
RuleLists ==
  {<<>>,
   <<OnError("TypeError")>>,
   <<OnError("Error")>>,
   <<OnCondition("notNumber"), OnCondition("greaterThan10")>>,
   <<OnError("TypeError"), OnCondition("greaterThan10")>>}

CustomConditions == {Fn("custom", rules) : rules \in RuleLists}

\* condition(result, error) is called on its own
ApplyCondition ==
  /\ direct = NotCalled
  /\ \E f \in BuiltinConditions \cup CustomConditions,
          res \in ResultValues, err \in ErrorValues :
       \E o \in CallRetryCondition(f, res, err) :
         direct' = [fn |-> "condition", args |-> <<f, res, err>>, out |-> o]
  /\ UNCHANGED <<cfg, pc, maxRetries, delay, attempts, shouldRetry, attemptsLeft,
                 result, previousError, outcome, calls, last, waits, steps, applied,
                 parked, descriptor>>

\* the messages and the causes the error is built with; undefined is no cause
Messages == {"noCause", "withCause"}
Causes == {Undefined, Null, Err(1), TypeErr(2)}

\* new MaxRetryAttemptsReached(message, cause) is evaluated on its own
Construct ==
  /\ direct = NotCalled
  /\ \E m \in Messages, c \in Causes :
       direct' = [fn |-> "MaxRetryAttemptsReached", args |-> <<Str(m), c>>,
                  out |-> Returns(MaxRetryAttemptsReached(m, c))]
  /\ UNCHANGED <<cfg, pc, maxRetries, delay, attempts, shouldRetry, attemptsLeft,
                 result, previousError, outcome, calls, last, waits, steps, applied,
                 parked, descriptor>>

DirectNext == ApplyCondition \/ Construct

\* nothing has been called
DirectInit ==
  /\ cfg = NoOptions
  /\ InitLocals
  /\ applied = NotApplied
  /\ parked = NoRun
  /\ descriptor = NoDescriptor
  /\ direct = NotCalled

DirectSpec == DirectInit /\ [][DirectNext]_vars

\* the condition f has been called directly
Tested(f) ==
  /\ direct.fn = "condition"
  /\ direct.args[1].fn = f.fn
  /\ direct.args[1] = f

----------------------------------------------------------------------------

(* Vocabulary of the properties. *)

Invocations == calls["operation"]
Suspensions == calls["wait"]
Done == pc = "done"

\* the settlement of the latest invocation that has settled
LastSettled ==
  IF calls["rejected"] = 0 THEN last["resolved"]
  ELSE IF calls["resolved"] = 0 THEN last["rejected"]
  ELSE IF last["resolved"].args[1].v > last["rejected"].args[1].v
  THEN last["resolved"]
  ELSE last["rejected"]

\* retryWhen has been evaluated and its latest evaluation returned b
RetryWhenReturned(b) ==
  /\ calls["retryWhen"] > 0
  /\ ~last["retryWhen"].out.threw
  /\ Truthy(last["retryWhen"].out.v) = b

\* the run ended because retryWhen, onFailedAttempt or the delay strategy threw
CallbackThrew ==
  /\ Done
  /\ steps # <<>>
  /\ steps[Len(steps)].ev \in {"retryWhen", "onFailedAttempt", "delay"}
  /\ steps[Len(steps)].out.threw

\* the loop was left on the exhausted path: retryWhen wanted a retry, none was left
Exhausted == Done /\ ~attemptsLeft

\* the loop was left because retryWhen returned false
StoppedByCondition == Done /\ RetryWhenReturned(FALSE)

\* the events of name ev among the calls of the latest resumption
StepsOf(ev) == {i \in 1..Len(steps) : steps[i].ev = ev}

----------------------------------------------------------------------------
(* C1: with maxRetries = N >= 0 and a retryWhen that returned true on every  *)
(* attempt, a run of Retry.do that has completed (no callback of the caller  *)
(* having thrown) has invoked the operation exactly N + 1 times, whether the *)
(* invocations resolved or rejected.                                         *)
C1_ExactlyNPlusOneInvocations ==
  (Done /\ cfg.maxRetries.kind = "number" /\ RetryWhenReturned(TRUE) /\ ~CallbackThrew)
    => Invocations = cfg.maxRetries.v + 1

C1_Witness ==
  /\ Done
  /\ cfg.maxRetries = Num(MaxRetriesBound)
  /\ cfg.retryWhen.fn = "user"
  /\ RetryWhenReturned(TRUE)
  /\ ~CallbackThrew
  /\ calls["resolved"] > 0
  /\ calls["rejected"] > 0
  /\ Invocations = MaxRetriesBound + 1

(* C2: in every state of a run the operation has been invoked at most       *)
(* maxRetries + 1 times, for every condition and every sequence of outcomes. *)
C2_AtMostMaxRetriesPlusOne == Invocations <= maxRetries + 1

C2_Witness ==
  /\ pc = "operation"
  /\ cfg.retryWhen.fn = "user"
  /\ cfg.maxRetries = Num(MaxRetriesBound)
  /\ Invocations = maxRetries + 1
  /\ calls["rejected"] > 0

(* C3: once retryWhen has returned false the run is over: the resumption    *)
(* that evaluated it called nothing after it (no onFailedAttempt, no delay,  *)
(* no wait, no operation), and no further step of the run is possible.       *)
C3_StopsAtOnceOnFalse ==
  RetryWhenReturned(FALSE) =>
    /\ Done
    /\ ~ENABLED Next
    /\ Len(steps) = 2
    /\ steps[1].ev \in {"resolved", "rejected"}
    /\ steps[2] = last["retryWhen"]
    /\ Invocations = calls["retryWhen"]
    /\ Suspensions = Invocations - 1
    /\ calls["delay"] = Invocations - 1
    /\ cfg.onFailedAttempt.kind = "function" => calls["onFailedAttempt"] = Invocations - 1

C3_Witness ==
  /\ RetryWhenReturned(FALSE)
  /\ Invocations = 1
  /\ cfg.onFailedAttempt.kind = "function"
  /\ cfg.delay.kind = "function"
  /\ maxRetries > 0

(* C4: with throwMaxAttemptError false or absent, a run that exhausted its   *)
(* budget on a final attempt that resolved resolves with the value of that  *)
(* final invocation; an operation whose final invocation returned its       *)
(* 0-based invocation index yields maxRetries.                              *)
C4_ResolvesWithFinalResult ==
  (Exhausted /\ ~Truthy(cfg.throwMaxAttemptError) /\ ~LastSettled.out.threw)
    => /\ outcome = Resolved(LastSettled.out.v)
       /\ LastSettled.args[1].v = maxRetries + 1
       /\ LastSettled.out.v = Num(Invocations - 1) => outcome.value = Num(maxRetries)

C4_Witness ==
  /\ Exhausted
  /\ ~Truthy(cfg.throwMaxAttemptError)
  /\ maxRetries = MaxRetriesBound
  /\ cfg.retryWhen.fn = "always"
  /\ calls["rejected"] > 0
  /\ ~LastSettled.out.threw
  /\ outcome = Resolved(Num(MaxRetriesBound))

(* C5: with throwMaxAttemptError false or absent, a run that exhausted its   *)
(* budget on a final attempt that rejected rejects with exactly the value    *)
(* that attempt rejected with, whatever that value is.                       *)
C5_RejectsWithFinalError ==
  (Exhausted /\ ~Truthy(cfg.throwMaxAttemptError) /\ LastSettled.out.threw)
    => outcome = Rejected(LastSettled.out.v)

(* C6, as claimed, for an operation whose rejections are Error objects:     *)
(* with throwMaxAttemptError true an exhausted run rejects with a            *)
(* MaxRetryAttemptsReached whose cause is the last error the operation threw *)
(* during the run, and null when no attempt threw.                           *)
C6_CauseIsLastErrorOfRun ==
  (/\ Exhausted
   /\ Truthy(cfg.throwMaxAttemptError)
   /\ calls["rejected"] > 0 => last["rejected"].out.v.kind = "Error")
    => /\ outcome.status = "rejected"
       /\ outcome.value.kind = "MaxRetryAttemptsReached"
       /\ outcome.value.cause =
            (IF calls["rejected"] > 0 THEN last["rejected"].out.v ELSE Null)

(* C6, amended: with throwMaxAttemptError true an exhausted run rejects     *)
(* with a MaxRetryAttemptsReached (it neither resolves nor rethrows the     *)
(* operation's error) whose cause is the value the final attempt rejected   *)
(* with, and null when the final attempt resolved.                          *)
C6_CauseIsErrorOfFinalAttempt ==
  (Exhausted /\ Truthy(cfg.throwMaxAttemptError))
    => /\ outcome.status = "rejected"
       /\ outcome.value.kind = "MaxRetryAttemptsReached"
       /\ outcome.value.cause =
            (IF LastSettled.out.threw THEN LastSettled.out.v ELSE Null)

C6_Witness ==
  /\ Exhausted
  /\ Truthy(cfg.throwMaxAttemptError)
  /\ Invocations > 1
  /\ outcome.value.kind = "MaxRetryAttemptsReached"
  /\ outcome.value.cause = Err(Invocations)

(* C7: a MaxRetryAttemptsReached is raised only with throwMaxAttemptError    *)
(* true and on the exhausted path; a run that ended because retryWhen        *)
(* returned false never raises it, also on the last allowed attempt, where   *)
(* it resolves with the stored result or rethrows the stored error.          *)
C7_OnlyOnExhaustedPath ==
  /\ (outcome.status = "rejected" /\ outcome.value.kind = "MaxRetryAttemptsReached")
       => (Truthy(cfg.throwMaxAttemptError) /\ Exhausted /\ RetryWhenReturned(TRUE))
  /\ StoppedByCondition
       => /\ attemptsLeft
          /\ outcome.status \in {"resolved", "rejected"}
          /\ outcome.value.kind # "MaxRetryAttemptsReached"
          /\ outcome.status = "resolved" => outcome.value = result
          /\ outcome.status = "rejected" => outcome.value = LastSettled.out.v

C7_Witness ==
  /\ StoppedByCondition
  /\ Truthy(cfg.throwMaxAttemptError)
  /\ maxRetries > 0
  /\ Invocations = maxRetries + 1
  /\ outcome.status = "rejected"

(* C8: if an attempt rejects and retryWhen then returns false, the run       *)
(* rejects with that attempt's rejection value, for every rejection value.   *)
C8_ErrorNotSwallowed ==
  (StoppedByCondition /\ LastSettled.out.threw)
    => outcome = Rejected(LastSettled.out.v)

(* C9: a suspension happens only between two invocations: none before the    *)
(* first, none after the last, one between consecutive invocations; the      *)
(* number of suspensions is the number of invocations minus one whenever the *)
(* run is not inside a suspension, where the two are equal.                  *)
C9_SuspensionsBetweenInvocations ==
  /\ pc = "idle" => (Invocations = 0 /\ Suspensions = 0)
  /\ pc = "operation" => Suspensions = Invocations - 1
  /\ pc = "wait" => Suspensions = Invocations
  /\ Done => Suspensions = Invocations - 1
  /\ Len(waits) = Suspensions
  /\ \A i \in StepsOf("wait") : i = Len(steps) /\ pc = "wait"
  /\ \A i \in StepsOf("operation") : i = Len(steps) /\ pc = "operation"

C9_Witness ==
  /\ Done
  /\ Invocations = MaxRetriesBound + 1
  /\ Suspensions = MaxRetriesBound

(* C10, as claimed: for every configured maxDelay >= 0 every suspension      *)
(* lasts at most maxDelay.                                                   *)
C10_SuspensionsAtMostMaxDelay ==
  (cfg.maxDelay.kind = "number" /\ cfg.maxDelay.v >= 0)
    => \A i \in 1..Len(waits) : waits[i] <= cfg.maxDelay.v

(* C10, amended: for every configured maxDelay > 0 every suspension lasts    *)
(* at most maxDelay; linear(5) with maxDelay = 10 and maxRetries = 3         *)
(* suspends for 5, 10, 10.                                                   *)
C10_SuspensionsAtMostPositiveMaxDelay ==
  /\ (cfg.maxDelay.kind = "number" /\ cfg.maxDelay.v > 0)
       => \A i \in 1..Len(waits) : waits[i] <= cfg.maxDelay.v
  /\ (cfg.delay = Fn("linear", 5) /\ cfg.maxDelay = Num(10))
       => \A i \in 1..Len(waits) : waits[i] = (IF i = 1 THEN 5 ELSE 10)

C10_Witness ==
  /\ Done
  /\ cfg.delay = Fn("linear", 5)
  /\ cfg.maxDelay = Num(10)
  /\ cfg.maxRetries = Num(3)
  /\ waits = <<5, 10, 10>>

(* C11: a configured onFailedAttempt is called exactly once for each attempt *)
(* on which retryWhen returned true, right after that evaluation and also on *)
(* the attempt that exhausts the budget, and never for an attempt on which   *)
(* retryWhen returned false; with maxRetries = N and a retryWhen that        *)
(* returned true every time, a completed run has called it N + 1 times.      *)
C11_OnFailedAttemptOncePerRetryDecision ==
  LET evaluatedTrue ==
        IF calls["retryWhen"] > 0 /\ ~RetryWhenReturned(TRUE)
        THEN calls["retryWhen"] - 1
        ELSE calls["retryWhen"]
      notified == StepsOf("onFailedAttempt")
  IN /\ cfg.onFailedAttempt.kind = "function" => calls["onFailedAttempt"] = evaluatedTrue
     /\ cfg.onFailedAttempt.kind # "function" => calls["onFailedAttempt"] = 0
     /\ \A i \in StepsOf("retryWhen") :
          /\ i = 2
          /\ (cfg.onFailedAttempt.kind = "function" /\ ~steps[i].out.threw
                /\ Truthy(steps[i].out.v)) => notified = {i + 1}
          /\ (steps[i].out.threw \/ ~Truthy(steps[i].out.v)) => notified = {}
     /\ (Done /\ cfg.onFailedAttempt.kind = "function" /\ RetryWhenReturned(TRUE)
           /\ ~CallbackThrew)
          => (calls["onFailedAttempt"] = maxRetries + 1 /\ Exhausted)

C11_Witness ==
  /\ Exhausted
  /\ cfg.onFailedAttempt.kind = "function"
  /\ cfg.retryWhen.fn = "always"
  /\ maxRetries = MaxRetriesBound
  /\ calls["onFailedAttempt"] = MaxRetriesBound + 1
  /\ StepsOf("onFailedAttempt") = {3}

(* C12: the k-th call of onFailedAttempt receives the attempt number k and   *)
(* attemptsLeft = maxRetries - (k - 1), which is never negative and is 0 on  *)
(* the call for the attempt that exhausts the budget, together with the      *)
(* result and the error retryWhen was evaluated with for that attempt.       *)
C12_OnFailedAttemptArguments ==
  LET k == calls["onFailedAttempt"]
      args == last["onFailedAttempt"].args
  IN k > 0 =>
       /\ args[1] = Num(k)
       /\ args[2] = Num(maxRetries - (k - 1))
       /\ args[2].v >= 0
       /\ \A i \in StepsOf("onFailedAttempt") :
            /\ steps[i] = last["onFailedAttempt"]
            /\ <<args[3], args[4]>> = steps[i - 1].args
            /\ <<args[3], args[4]>> = <<result, previousError>>
            /\ steps[1].ev = "resolved" => <<args[3], args[4]>> = <<steps[1].out.v, Null>>
            /\ steps[1].ev = "rejected" => args[4] = steps[1].out.v
       /\ Exhausted => (args[2] = Num(0) /\ k = maxRetries + 1)

C12_Witness ==
  /\ Exhausted
  /\ maxRetries = MaxRetriesBound
  /\ calls["onFailedAttempt"] = MaxRetriesBound + 1
  /\ last["onFailedAttempt"].args[2] = Num(0)
  /\ last["onFailedAttempt"].args[4] = Err(Invocations)
  /\ last["onFailedAttempt"].args[3] = Num(0)

(* C13: maxRetries = 0 is honoured: the operation is invoked exactly once,   *)
(* and if retryWhen returns true on that attempt the budget is exhausted at  *)
(* once, the delay strategy is never called and no suspension happens.       *)
C13_ZeroRetries ==
  cfg.maxRetries = Num(0) =>
    /\ maxRetries = 0
    /\ Invocations = (IF pc = "idle" THEN 0 ELSE 1)
    /\ calls["delay"] = 0
    /\ Suspensions = 0
    /\ pc # "wait"
    /\ (RetryWhenReturned(TRUE) /\ ~CallbackThrew) => (Exhausted /\ attempts = 1)

C13_Witness ==
  /\ cfg.maxRetries = Num(0)
  /\ cfg.delay.kind = "function"
  /\ RetryWhenReturned(TRUE)
  /\ Exhausted
  /\ Invocations = 1

(* C14: with maxRetries absent the run has the budget of maxRetries = 2 (3   *)
(* invocations when retryWhen returns true every time), and with delay       *)
(* absent it runs the none strategy: the suspension between two attempts     *)
(* still takes place, with duration 0.                                       *)
C14_Defaults ==
  /\ cfg.maxRetries = Undefined =>
       /\ maxRetries = 2
       /\ Invocations <= 3
       /\ (Done /\ RetryWhenReturned(TRUE) /\ ~CallbackThrew) => Invocations = 3
  /\ cfg.delay = Undefined =>
       /\ delay = Fn("none", 0)
       /\ \A i \in 1..Len(waits) : waits[i] = 0
       /\ calls["delay"] = Suspensions
       /\ pc = "operation" => Suspensions = Invocations - 1

C14_Witness ==
  /\ Done
  /\ cfg.maxRetries = Undefined
  /\ cfg.delay = Undefined
  /\ cfg.retryWhen.fn = "always"
  /\ Invocations = 3
  /\ waits = <<0, 0>>

(* C15: if every invocation of the operation settles and every suspension   *)
(* resumes, a run of Retry.do that has been started completes, for every    *)
(* maxRetries and every condition, and it has then invoked the operation at *)
(* most maxRetries + 1 times.                                               *)
C15_RunCompletes ==
  /\ (pc # "idle") ~> Done
  /\ [](Done => (outcome.status \in {"resolved", "rejected"}
                   /\ Invocations \in 1..(maxRetries + 1)))

C15_Witness ==
  /\ Done
  /\ cfg.retryWhen.fn = "always"
  /\ maxRetries = MaxRetriesBound
  /\ Invocations = MaxRetriesBound + 1
  /\ outcome.status = "resolved"

----------------------------------------------------------------------------
\* what the call r has done follows from its own options and its own attempts
OwnAttemptState(r) ==
  LET invocations == r.calls["operation"]
      k == r.calls["onFailedAttempt"]
  IN /\ invocations <= r.maxRetries + 1
     /\ r.pc = "idle" => r.attempts = 0 /\ invocations = 0
     /\ r.pc = "operation" => r.attempts = invocations - 1
     /\ r.pc = "wait" => r.attempts = invocations
     /\ r.pc = "done" => r.attempts \in {invocations - 1, invocations}
     /\ k > 0 => /\ r.last["onFailedAttempt"].args[1] = Num(k)
                 /\ r.last["onFailedAttempt"].args[2] = Num(r.maxRetries - (k - 1))
     /\ \A i \in 1..Len(r.waits) : r.waits[i] = DelaysLinear(r.delay.arg, i)
     /\ ~r.attemptsLeft <=> r.attempts = r.maxRetries + 1
     /\ (r.pc = "done" /\ ~r.attemptsLeft)
          <=> (r.outcome.status = "rejected" /\ r.outcome.value.kind = "MaxRetryAttemptsReached")

\* C16: two calls of Retry.do interleaved in any order share no attempt state: the
\* counter of each starts at 0 and follows its own invocations, and its invocation
\* count, its onFailedAttempt arguments, its delays and its exhaustion follow from its
\* own options and attempts.
C16_RunsShareNoAttemptState ==
  /\ OwnAttemptState(RunState)
  /\ parked # NoRun => OwnAttemptState(parked)

\* both calls are suspended between attempts at once, one after its first attempt
\* with one retry allowed, the other after its second attempt with two allowed
C16_Witness ==
  /\ parked # NoRun
  /\ pc = "wait" /\ parked.pc = "wait"
  /\ maxRetries = 1 /\ attempts = 1 /\ waits = <<5>>
  /\ parked.maxRetries = 2 /\ parked.attempts = 2 /\ parked.waits = <<5, 10>>

----------------------------------------------------------------------------
\* the run the latest call of the wrapper started is a run of Retry.do over the
\* original method, bound to the instance and the arguments of the call, with the
\* options of the decorator and, unless they name the operation, the method name
RunOfWrapper ==
  /\ cfg.operation = Operation(descriptor.original, descriptor.self, descriptor.args)
  /\ \A k \in DOMAIN descriptor.options : cfg[k] = descriptor.options[k]
  /\ \A k \in OptionKeys \ (DOMAIN descriptor.options \cup {"operation", "nameOfOperation"}) :
       cfg[k] = Undefined
  /\ "nameOfOperation" \notin DOMAIN descriptor.options
       => cfg.nameOfOperation = Str("DummyClass#method")

\* the step is a call of the wrapper, and it leaves one fresh run at its first await
FreshRun ==
  descriptor'.invoked # descriptor.invoked =>
    /\ descriptor'.invoked = descriptor.invoked + 1
    /\ pc' = "operation"
    /\ attempts' = 0 /\ attemptsLeft' /\ ~shouldRetry'
    /\ result' = Null /\ previousError' = Null
    /\ outcome' = Pending
    /\ calls' = [ev \in EventNames |-> IF ev = "operation" THEN 1 ELSE 0]
    /\ waits' = <<>>

\* C17: Retryable leaves the value of a descriptor that is not a function as it was;
\* it replaces a function by a wrapper, and every call of the wrapper starts one fresh
\* run of Retry.do over the original method with the options of the decorator.
C17_RetryableWrapsFunctionsOnly ==
  /\ [](descriptor.decorated =>
          IF descriptor.original.kind = "function"
          THEN /\ descriptor.value = Wrapper(descriptor.original, Str("DummyClass#method"),
                                              descriptor.options)
               /\ descriptor.invoked > 0 => RunOfWrapper
          ELSE /\ descriptor.value = descriptor.original
               /\ descriptor.invoked = 0
               /\ pc = "idle")
  /\ [][FreshRun]_vars

\* the wrapper was called a second time, after the run of its first call had retried
\* and ended, and has started a run that is at its first attempt
C17_Witness ==
  /\ descriptor.decorated
  /\ descriptor.invoked = 2
  /\ pc = "operation"
  /\ attempts = 0
  /\ Invocations = 1
  /\ cfg.nameOfOperation = Str("DummyClass#method")
  /\ cfg.maxRetries = Num(1)
  /\ descriptor.args = <<Num(7)>>

----------------------------------------------------------------------------
\* C18: Delays.none() returns 0 and Delays.constant(d) returns d for every attempt
\* count, zero and negative counts included, whatever the error is.
C18_NoneAndConstantIgnoreArguments ==
  /\ Applied(Fn("none", 0)) => applied.out = Returns(Num(0))
  /\ \A d \in DelayInMs : Applied(Fn("constant", d)) => applied.out = Returns(Num(d))

\* constant(5) was called with a negative attempt count and an error and returned 5
C18_Witness ==
  /\ Applied(Fn("constant", 5))
  /\ applied.attempts < 0
  /\ applied.error = Err(1)
  /\ applied.out = Returns(Num(5))

----------------------------------------------------------------------------
\* C19: Delays.linear(d) returns attempts * d for every attempt count, zero and
\* negative counts included; a run with maxRetries = 3 and linear(5) that is not
\* clamped suspends for 5, then 10, then 15.
C19_LinearIsAttemptsTimesDelay ==
  /\ \A d \in DelayInMs :
       Applied(Fn("linear", d)) => applied.out = Returns(Num(applied.attempts * d))
  /\ (cfg.delay = Fn("linear", 5) /\ maxRetries = 3 /\ cfg.maxDelay = Undefined)
       => /\ waits = SubSeq(<<5, 10, 15>>, 1, Len(waits))
          /\ Exhausted => waits = <<5, 10, 15>>

\* linear(7) was called with a negative count and returned a negative delay, and the
\* run has used up its three retries after suspending for 5, 10 and 15
C19_Witness ==
  /\ Applied(Fn("linear", 7))
  /\ applied.attempts = 0 - 2
  /\ applied.out = Returns(Num(0 - 14))
  /\ cfg.delay = Fn("linear", 5)
  /\ Exhausted
  /\ Invocations = 4
  /\ waits = <<5, 10, 15>>

----------------------------------------------------------------------------
\* C20: Delays.potential(d) returns 2^max(attempts - 1, 0) * d: d for every count up
\* to 1, zero and negative counts included, and 10, 20, 80 for d = 5 and the counts
\* 2, 3, 5.
C20_PotentialDoublesFromSecondAttempt ==
  /\ \A d \in DelayInMs :
       Applied(Fn("potential", d)) =>
         /\ applied.out = Returns(Num(Pow(2, Max(applied.attempts - 1, 0)) * d))
         /\ applied.attempts <= 1 => applied.out = Returns(Num(d))
  /\ Applied(Fn("potential", 5)) =>
       /\ applied.attempts = 2 => applied.out = Returns(Num(10))
       /\ applied.attempts = 3 => applied.out = Returns(Num(20))
       /\ applied.attempts = 5 => applied.out = Returns(Num(80))

\* potential(5) was called with the attempt count 5 and returned 80
C20_Witness ==
  /\ Applied(Fn("potential", 5))
  /\ applied.attempts = 5
  /\ applied.out = Returns(Num(80))

----------------------------------------------------------------------------
\* C21 as stated: Delays.potential(d) yields d, d, 2d, 4d, 8d for the attempt counts
\* 1, 2, 3, 4, 5.
C21_PotentialYieldsOneOneTwoFourEight ==
  \A d \in DelayInMs :
    (Applied(Fn("potential", d)) /\ applied.attempts \in 1..5) =>
      applied.out = Returns(Num(<<1, 1, 2, 4, 8>>[applied.attempts] * d))

\* C21 amended: Delays.potential(d) yields d, 2d, 4d, 8d, 16d for the attempt counts
\* 1, 2, 3, 4, 5.
C21_PotentialYieldsOneTwoFourEightSixteen ==
  \A d \in DelayInMs :
    (Applied(Fn("potential", d)) /\ applied.attempts \in 1..5) =>
      applied.out = Returns(Num(<<1, 2, 4, 8, 16>>[applied.attempts] * d))

\* potential(7) was called with the attempt count 4 and returned 8 * 7
C21_Witness ==
  /\ Applied(Fn("potential", 7))
  /\ applied.attempts = 4
  /\ applied.out = Returns(Num(56))

----------------------------------------------------------------------------
\* C22: Conditions.onAnyError() returns true exactly when the error is neither null
\* nor undefined, whatever the result is.
C22_OnAnyErrorIffErrorPresent ==
  Tested(Fn("onAnyError", 0)) =>
    direct.out = Returns(Bool(direct.args[3].kind \notin {"null", "undefined"}))

\* onAnyError() was called with a result and the error 0, and returned true
C22_Witness ==
  /\ Tested(Fn("onAnyError", 0))
  /\ direct.args[2] = Num(11)
  /\ direct.args[3] = Num(0)
  /\ direct.out = Returns(Bool(TRUE))

----------------------------------------------------------------------------
\* C23: Conditions.onNullResult() returns true exactly when the error is null or
\* undefined and the result is null or undefined; with an error present it returns
\* false, also for a null result.
C23_OnNullResultIffNothingReturnedNorThrown ==
  Tested(Fn("onNullResult", 0)) =>
    /\ direct.out = Returns(Bool(/\ direct.args[3].kind \in {"null", "undefined"}
                                 /\ direct.args[2].kind \in {"null", "undefined"}))
    /\ direct.args[3].kind \in {"Error", "TypeError"} => direct.out = Returns(Bool(FALSE))

\* onNullResult() was called with a null result and an Error, and returned false
C23_Witness ==
  /\ Tested(Fn("onNullResult", 0))
  /\ direct.args[2] = Null
  /\ direct.args[3] = Err(1)
  /\ direct.out = Returns(Bool(FALSE))

----------------------------------------------------------------------------
\* the built predicate was called with the rules, the result and the error
TestedCustom(rules, res, err) ==
  /\ Tested(Fn("custom", rules))
  /\ direct.args[2] = res
  /\ direct.args[3] = err

\* C24: the predicate of Conditions.custom()...toCondition() returns true exactly
\* when the error is an instance of a type registered with onError or a condition
\* registered with onCondition holds for the result; with no rule registered it
\* returns false for every input.
C24_CustomIsAnyRegisteredRule ==
  /\ \A rules \in RuleLists :
       Tested(Fn("custom", rules)) =>
         LET res == direct.args[2]
             err == direct.args[3]
             types == {rules[i].of : i \in {j \in 1..Len(rules) : rules[j].rule = "onError"}}
             predicates ==
               {rules[i].of : i \in {j \in 1..Len(rules) : rules[j].rule = "onCondition"}}
             matches ==
               \/ "TypeError" \in types /\ err.kind = "TypeError"
               \/ "Error" \in types /\ err.kind \in {"Error", "TypeError"}
               \/ "notNumber" \in predicates /\ res.kind # "number"
               \/ "greaterThan10" \in predicates /\ res \in {Num(11)}
         IN /\ direct.out = Returns(Bool(matches))
            /\ rules = <<>> => direct.out = Returns(Bool(FALSE))
  /\ TestedCustom(<<OnError("TypeError")>>, Null, Err(1))
       => direct.out = Returns(Bool(FALSE))
  /\ TestedCustom(<<OnError("TypeError")>>, Null, TypeErr(2))
       => direct.out = Returns(Bool(TRUE))
  /\ TestedCustom(<<OnCondition("notNumber"), OnCondition("greaterThan10")>>, Null, Null)
       => direct.out = Returns(Bool(TRUE))
  /\ TestedCustom(<<OnCondition("notNumber"), OnCondition("greaterThan10")>>, Num(11), Null)
       => direct.out = Returns(Bool(TRUE))
  /\ TestedCustom(<<OnCondition("notNumber"), OnCondition("greaterThan10")>>, Num(1), Null)
       => direct.out = Returns(Bool(FALSE))

\* only the second of two registered rules matched, and the predicate returned true
C24_Witness ==
  /\ TestedCustom(<<OnError("TypeError"), OnCondition("greaterThan10")>>, Num(11), Err(1))
  /\ direct.out = Returns(Bool(TRUE))

----------------------------------------------------------------------------
\* the error has been built directly with the message m and the cause c
Built(m, c) == direct.fn = "MaxRetryAttemptsReached" /\ direct.args = <<Str(m), c>>

\* C25: a MaxRetryAttemptsReached built with the message m and the cause c has the
\* message m + ' Caused by thrown error: ' + c.message and keeps c as its cause; built
\* without a cause it has the message m + ' Caused by: unfulfilled retry condition'
\* and an undefined cause.
C25_MessageNamesCause ==
  \A m \in Messages :
    /\ \A c \in {Err(1), TypeErr(2)} :
         Built(m, c) =>
           /\ direct.out.v.message = m \o " Caused by thrown error: " \o c.message
           /\ direct.out.v.cause = c
    /\ Built(m, Undefined) =>
         /\ direct.out.v.message = m \o " Caused by: unfulfilled retry condition"
         /\ direct.out.v.cause = Undefined

\* the error was built with 'withCause' and an Error whose message is 'error 1'
C25_Witness ==
  /\ Built("withCause", Err(1))
  /\ direct.out.v.message = "withCause Caused by thrown error: error 1"
  /\ direct.out.v.cause = Err(1)

----------------------------------------------------------------------------
\* the error the attempt that settled in the latest resumption left behind
ErrorOfSettledAttempt == IF steps[1].ev = "rejected" THEN steps[1].out.v ELSE Null

\* the latest resumption called the delay strategy
DelayCalledNow == StepsOf("delay") # {}

\* C26: the delay strategy is called only when another invocation of the operation
\* follows, never after the attempt that uses up the budget and never after an
\* attempt for which retryWhen returned false; its k-th call gets the attempt count k,
\* which is at most maxRetries, and the error of the attempt that just settled, null
\* if it resolved.
C26_DelayOnlyBeforeAnotherInvocation ==
  /\ [](DelayCalledNow =>
          /\ RetryWhenReturned(TRUE)
          /\ attemptsLeft
          /\ calls["delay"] <= maxRetries
          /\ last["delay"].args = <<Num(calls["delay"]), ErrorOfSettledAttempt>>
          /\ ~last["delay"].out.threw => pc = "wait" /\ shouldRetry)
  /\ []((Done /\ (~attemptsLeft \/ RetryWhenReturned(FALSE))) => ~DelayCalledNow)
  /\ [][pc = "wait" => pc' = "operation" /\ Invocations' = Invocations + 1]_vars

\* the strategy was called a second time, after the second attempt rejected with an
\* Error, and the run is suspended before its third invocation
C26_Witness ==
  /\ pc = "wait"
  /\ DelayCalledNow
  /\ calls["delay"] = 2
  /\ Invocations = 2
  /\ last["delay"].args = <<Num(2), Err(2)>>

----------------------------------------------------------------------------
\* the latest resumption suspended the run
SuspendedNow == StepsOf("wait") # {}

\* C27: the duration Retry.do suspends for is min(maxDelay, computed delay) when
\* maxDelay is a positive number and the value of the delay strategy unchanged when
\* maxDelay is absent; the strategy is called first, and the clamp never raises
\* a delay.
C27_SuspendsForClampedDelay ==
  SuspendedNow =>
    LET i == CHOOSE j \in StepsOf("wait") : TRUE
        computed == steps[i - 1].out.v.v
        suspendedFor == steps[i].args[1].v
    IN /\ steps[i - 1].ev = "delay"
       /\ (cfg.maxDelay.kind = "number" /\ cfg.maxDelay.v > 0)
            => suspendedFor = (IF cfg.maxDelay.v <= computed THEN cfg.maxDelay.v
                               ELSE computed)
       /\ cfg.maxDelay = Undefined => suspendedFor = computed
       /\ suspendedFor <= computed

\* with maxDelay = 10 the strategy returned 25 and the run suspended for 10
C27_Witness ==
  /\ SuspendedNow
  /\ cfg.maxDelay = Num(10)
  /\ last["delay"].out = Returns(Num(25))
  /\ last["wait"].args = <<Num(10)>>

----------------------------------------------------------------------------
\* the latest resumption began with the settlement of an attempt
SettledNow(how) == steps # <<>> /\ steps[1].ev = how

\* the result of the most recent attempt that resolved, null if none has
LastResolvedResult == IF calls["resolved"] = 0 THEN Null ELSE last["resolved"].out.v

\* C28: an attempt that rejects sets the captured error and leaves the stored result
\* as it was, an attempt that resolves sets the stored result and clears the captured
\* error; retryWhen is evaluated after a rejection with the result of the most recent
\* resolved attempt (or null) and the new error, after a resolution with the new
\* result and null.
C28_RejectionKeepsResult ==
  /\ [](SettledNow("rejected") =>
          /\ previousError = steps[1].out.v
          /\ result = LastResolvedResult
          /\ steps[2].ev = "retryWhen"
          /\ steps[2].args = <<LastResolvedResult, steps[1].out.v>>)
  /\ [](SettledNow("resolved") =>
          /\ result = steps[1].out.v
          /\ previousError = Null
          /\ steps[2].ev = "retryWhen"
          /\ steps[2].args = <<steps[1].out.v, Null>>)
  /\ [][(pc = "operation" /\ steps'[1].ev = "rejected") => result' = result]_vars

\* the first attempt resolved with 0, the second rejected with an Error, and
\* retryWhen was evaluated with 0 and that Error
C28_Witness ==
  /\ SettledNow("rejected")
  /\ Invocations = 2
  /\ result = Num(0)
  /\ previousError = Err(2)
  /\ last["retryWhen"].args = <<Num(0), Err(2)>>

----------------------------------------------------------------------------
\* the place of a call in the body of the loop
StepRank(ev) ==
  CASE ev \in {"resolved", "rejected"} -> 1
    [] ev = "retryWhen" -> 2
    [] ev = "onFailedAttempt" -> 3
    [] ev = "delay" -> 4
    [] ev = "wait" -> 5
    [] OTHER -> 6

\* C29: in every iteration the operation settles, then retryWhen is evaluated once,
\* then onFailedAttempt is called, then the budget is checked and the counter
\* incremented, then the delay is computed, then the run suspends; so retryWhen is
\* evaluated once per invocation, and onFailedAttempt for attempt k is called before
\* the delay that precedes attempt k + 1.
C29_FixedOrderWithinIteration ==
  /\ \A i, j \in 1..Len(steps) :
       i < j => StepRank(steps[i].ev) < StepRank(steps[j].ev)
  /\ (SettledNow("resolved") \/ SettledNow("rejected")) => steps[2].ev = "retryWhen"
  /\ calls["retryWhen"] = calls["resolved"] + calls["rejected"]
  /\ pc \in {"wait", "done"} => calls["retryWhen"] = Invocations
  /\ (DelayCalledNow /\ cfg.onFailedAttempt.kind = "function") =>
       /\ StepsOf("onFailedAttempt") # {}
       /\ last["onFailedAttempt"].args[1] = Num(calls["delay"])
       /\ last["delay"].args[1] = Num(calls["delay"])
       /\ attempts = calls["delay"]
  /\ (StepsOf("onFailedAttempt") # {} /\ last["onFailedAttempt"].out.threw) =>
       attempts = calls["onFailedAttempt"] - 1 /\ attemptsLeft

\* one resumption went through the whole body: the second attempt settled, retryWhen
\* was evaluated, onFailedAttempt was called, the delay computed and the run suspended
C29_Witness ==
  /\ Len(steps) = 5
  /\ steps[2].ev = "retryWhen"
  /\ steps[3].ev = "onFailedAttempt"
  /\ steps[4].ev = "delay"
  /\ steps[5].ev = "wait"
  /\ Invocations = 2
  /\ calls["retryWhen"] = 2

----------------------------------------------------------------------------
\* the invocations of the operation that have settled
Settled == calls["resolved"] + calls["rejected"]

\* C30: within one run at most one invocation of the operation is in flight:
\* invocation k + 1 starts only after invocation k has settled, retryWhen has been
\* evaluated for it and the suspension between the two has ended.
C30_OneInvocationInFlight ==
  /\ [](/\ Invocations - Settled \in {0, 1}
        /\ Invocations - Settled = 1 <=> pc = "operation")
  /\ [][Invocations' = Invocations + 1 =>
          /\ Settled = Invocations
          /\ calls["retryWhen"] = Invocations
          /\ Suspensions = Invocations
          /\ pc = (IF Invocations = 0 THEN "idle" ELSE "wait")
          /\ Settled' = Settled]_vars

\* the third invocation is in flight; two have settled and two suspensions have ended
C30_Witness ==
  /\ pc = "operation"
  /\ Invocations = 3
  /\ Settled = 2
  /\ Suspensions = 2
  /\ calls["retryWhen"] = 2

----------------------------------------------------------------------------
(* Two runs that differ in onFailedAttempt only, given the same outcomes. *)

\* the invocations of the call r that have settled, and the latest of them
SettledOf(r) == r.calls["resolved"] + r.calls["rejected"]
LastSettledOf(r) ==
  IF r.calls["rejected"] = 0 THEN r.last["resolved"]
  ELSE IF r.calls["resolved"] = 0 THEN r.last["rejected"]
  ELSE IF r.last["resolved"].args[1].v > r.last["rejected"].args[1].v
  THEN r.last["resolved"]
  ELSE r.last["rejected"]

\* the options of the run with a callback: built-in condition and delay, and a
\* callback that returns undefined, false or 1
TwinOptions ==
  [maxRetries : {Num(1), Num(2)},
   throwMaxAttemptError : {Undefined, Bool(TRUE)},
   maxDelay : {Undefined},
   retryWhen : {Fn("always", 0), Fn("onAnyError", 0), Fn("onNullResult", 0)},
   delay : {Fn("linear", 5)},
   onFailedAttempt : {Fn("user", 0), Fn("returning", 0)},
   nameOfOperation : {Undefined},
   operation : {Fn("operation", NoClosure)}]

\* the same call without the callback
WithoutCallback(o) == [o EXCEPT !.onFailedAttempt = Undefined]

TwinInit ==
  /\ cfg \in TwinOptions
  /\ InitLocals
  /\ applied = NotApplied
  /\ parked = IdleRun(WithoutCallback(cfg))
  /\ descriptor = NoDescriptor
  /\ direct = NotCalled

\* the two operations behave alike: neither run is more than one settlement ahead,
\* and an invocation both runs have seen settle settled alike in both
SameOutcomes ==
  /\ SettledOf(RunState) - SettledOf(parked) \in {0 - 1, 0, 1}
  /\ (SettledOf(RunState) = SettledOf(parked) /\ SettledOf(parked) > 0)
       => LastSettledOf(RunState) = LastSettledOf(parked)

\* the callback, where it was called, returned
CallbackReturned ==
  \A i \in 1..Len(steps) : steps[i].ev = "onFailedAttempt" => ~steps[i].out.threw

\* the awaited operation of the running call settles as it does for the other call
TwinSettles ==
  /\ OperationResolves \/ OperationRejects
  /\ SameOutcomes'
  /\ CallbackReturned'

TwinNext == Do \/ TwinSettles \/ WaitElapsed \/ Swap

TwinSpec == TwinInit /\ [][TwinNext]_vars

\* the run goes on
Continuing(p) == p \in {"idle", "operation", "wait"}

----------------------------------------------------------------------------
\* C31: a callback onFailedAttempt that does not throw changes nothing observable:
\* with the same outcomes of the operation and the same other options, the run with
\* the callback and the run without it make the same invocations, suspend for the
\* same delays and end alike, whatever the callback returns.
C31_CallbackChangesNothing ==
  SettledOf(RunState) = SettledOf(parked) =>
    /\ Continuing(pc) <=> Continuing(parked.pc)
    /\ waits = parked.waits
    /\ outcome = parked.outcome
    /\ pc = parked.pc => Invocations = parked.calls["operation"]

\* both runs have used up two retries and ended alike; one called a callback three
\* times, which returned false, the other has no callback
C31_Witness ==
  /\ pc = "done" /\ parked.pc = "done"
  /\ cfg.onFailedAttempt = Fn("returning", 0)
  /\ parked.cfg.onFailedAttempt = Undefined
  /\ calls["onFailedAttempt"] = 3
  /\ last["onFailedAttempt"].out = Returns(Bool(FALSE))
  /\ Invocations = 3 /\ parked.calls["operation"] = 3
  /\ waits = <<5, 10>> /\ parked.waits = <<5, 10>>
  /\ outcome = parked.outcome
  /\ outcome.status = "rejected"

----------------------------------------------------------------------------
\* an invocation of the operation has not settled
Unsettled == Invocations > Settled

\* C32: while an invocation of the operation has not settled the run does not
\* complete: its promise stays pending, retryWhen is not evaluated for the
\* invocation, no further attempt starts, and the only step the run can take is the
\* settlement of that invocation; nothing times the invocation out or cancels it.
C32_UnsettledInvocationBlocksRun ==
  /\ [](Unsettled =>
          /\ pc = "operation"
          /\ outcome = Pending
          /\ calls["retryWhen"] = Settled
          /\ Invocations = Settled + 1)
  /\ [][Unsettled => (Settled' = Settled + 1 /\ Invocations' = Invocations)]_vars

\* the second invocation is in flight and the run is pending
C32_Witness ==
  /\ Unsettled
  /\ Invocations = 2
  /\ pc = "operation"
  /\ outcome = Pending
  /\ calls["retryWhen"] = 1
  /\ waits = <<5>>

----------------------------------------------------------------------------
(* Runs that raise MaxRetryAttemptsReached, with and without a name. *)

\* throwMaxAttemptError is set; nameOfOperation is absent, a name, or the empty string
NamedOptions ==
  [maxRetries : {Undefined} \cup {Num(n) : n \in 0..MaxRetriesBound},
   throwMaxAttemptError : {Bool(TRUE)},
   maxDelay : {Undefined},
   retryWhen : {Fn("always", 0), Fn("onAnyError", 0)},
   delay : {Undefined},
   onFailedAttempt : {Undefined},
   nameOfOperation : {Undefined, Str("fetchUser"), Str("")},
   operation : {Fn("operation", NoClosure)}]

NamedInit ==
  /\ cfg \in NamedOptions
  /\ InitLocals
  /\ applied = NotApplied
  /\ parked = NoRun
  /\ descriptor = NoDescriptor
  /\ direct = NotCalled

NamedSpec == NamedInit /\ [][Next]_vars

\* the run has rejected with a MaxRetryAttemptsReached
RaisedMaxRetryAttemptsReached ==
  /\ Done
  /\ outcome.status = "rejected"
  /\ outcome.value.kind = "MaxRetryAttemptsReached"

----------------------------------------------------------------------------
\* C33: the attempt count in the message of a MaxRetryAttemptsReached raised by
\* Retry.do is the number of invocations of the operation in the run, which is
\* maxRetries + 1, and the name in it is nameOfOperation when given and the name of
\* the operation otherwise.
C33_MessageCountsInvocations ==
  RaisedMaxRetryAttemptsReached =>
    LET name == IF cfg.nameOfOperation.kind = "string" THEN cfg.nameOfOperation.v
                ELSE "operation"
        head == "Max re-attempts of " \o ToString(Invocations)
                  \o " reached for operation \"" \o name \o "\"."
    IN /\ Invocations = maxRetries + 1
       /\ outcome.value.message \in
            {head \o " Caused by: unfulfilled retry condition",
             head \o " Caused by thrown error: error " \o ToString(Invocations)}

\* a run named fetchUser with maxRetries = 2 raised the error after three invocations
C33_Witness ==
  /\ RaisedMaxRetryAttemptsReached
  /\ cfg.nameOfOperation = Str("fetchUser")
  /\ cfg.maxRetries = Num(2)
  /\ Invocations = 3
  /\ outcome.value.message =
       "Max re-attempts of 3 reached for operation \"fetchUser\". Caused by thrown error: error 3"

----------------------------------------------------------------------------
\* an attempt before the final one rejected with an Error
EarlierAttemptThrew ==
  /\ calls["rejected"] > 0
  /\ last["rejected"].out.v.kind = "Error"
  /\ last["rejected"].args[1].v < Invocations

\* C34: once a later attempt of the run has resolved, the error of an earlier attempt
\* is not surfaced: a run whose final attempt resolved does not reject with an earlier
\* error, and a MaxRetryAttemptsReached raised on its exhaustion has no cause and the
\* message 'unfulfilled retry condition', also when earlier attempts threw.
C34_EarlierErrorNotSurfaced ==
  (Done /\ ~CallbackThrew /\ LastSettled.ev = "resolved") =>
    /\ previousError = Null
    /\ \/ outcome = Resolved(LastSettled.out.v)
       \/ /\ Exhausted
          /\ RaisedMaxRetryAttemptsReached
          /\ outcome.value.cause = Null
          /\ outcome.value.message =
               "Max re-attempts of " \o ToString(Invocations)
                 \o " reached for operation \"operation\". Caused by: unfulfilled retry condition"

\* an earlier attempt rejected with an Error, the final attempt resolved, and the run
\* raised MaxRetryAttemptsReached without a cause
C34_Witness ==
  /\ Done
  /\ EarlierAttemptThrew
  /\ LastSettled.ev = "resolved"
  /\ RaisedMaxRetryAttemptsReached
  /\ outcome.value.cause = Null

----------------------------------------------------------------------------
\* the calls of the latest resumption in which a callback of the caller threw
ThrowingSteps ==
  {i \in 1..Len(steps) : /\ steps[i].ev \in {"retryWhen", "onFailedAttempt", "delay"}
                         /\ steps[i].out.threw}

\* C35: an exception thrown by retryWhen, by onFailedAttempt or by the delay strategy
\* is not captured as an error of the operation: the run rejects with it at once, the
\* operation is not invoked again, no suspension follows, and no
\* MaxRetryAttemptsReached is raised, also with throwMaxAttemptError set.
C35_CallbackExceptionEndsRun ==
  /\ [](\A i \in ThrowingSteps :
          /\ i = Len(steps)
          /\ Done
          /\ outcome = Rejected(steps[i].out.v)
          /\ outcome.value.kind = "Error"
          /\ previousError # steps[i].out.v
          /\ StepsOf("wait") = {})
  /\ [][Done => (Invocations' = Invocations /\ Suspensions' = Suspensions
                  /\ outcome' = outcome)]_vars

\* onFailedAttempt threw after the attempt that used up the budget of a run with
\* throwMaxAttemptError, and the run rejected with that exception
C35_Witness ==
  /\ Done
  /\ cfg.throwMaxAttemptError = Bool(TRUE)
  /\ Invocations = maxRetries + 1
  /\ maxRetries = 1
  /\ ThrowingSteps # {}
  /\ outcome = Rejected(CallbackError("onFailedAttempt"))

----------------------------------------------------------------------------
\* the do-while loop of lines 177-203 has not been left
LoopRunning == pc \in {"idle", "operation", "wait"}

\* C36: attemptsLeft is true in every state in which the loop is still running; when
\* the loop is left it is false if and only if retryWhen returned true with attempts
\* equal to maxRetries before the increment (the exhausted path); the attempt counter
\* then equals the number of invocations on the exhausted path and the number of
\* invocations minus one on the path on which retryWhen returned false.  A run that
\* a throwing callback ended never reached the increment and left the flag true.
C36_AttemptsLeftFlag ==
  /\ [](LoopRunning => attemptsLeft)
  /\ [][(~Done /\ Done') =>
          ~attemptsLeft' <=> /\ ~CallbackThrew'
                             /\ RetryWhenReturned(TRUE)'
                             /\ attempts = maxRetries]_vars
  /\ [][(~Done /\ Done' /\ ~CallbackThrew') =>
          /\ ~attemptsLeft' => (attempts' = attempts + 1 /\ attempts' = Invocations')
          /\ attemptsLeft' => /\ RetryWhenReturned(FALSE)'
                              /\ attempts' = attempts
                              /\ attempts' = Invocations' - 1]_vars

\* a run left the loop on the exhausted path after a retry, with the flag false
C36_Witness ==
  /\ Done
  /\ ~CallbackThrew
  /\ ~attemptsLeft
  /\ maxRetries = 2
  /\ attempts = 3
  /\ Invocations = 3
  /\ Suspensions = 2

====
